---- MODULE Spec2Model ----
(***************************************************************************)
(* The questionnaire application of src/main.py: three tables (users,      *)
(* questions, answers) in one SQLite file, a seed routine run at process   *)
(* start, and the request handlers POST /questions, POST /submit and       *)
(* POST /results.                                                          *)
(*                                                                         *)
(* Strings the code takes apart (form keys) are sequences of one-character *)
(* strings, so that startswith, split and int are computed.  Strings the   *)
(* code only stores and compares (names, answer texts, the passcode,       *)
(* question prompts) are TLA+ strings.                                     *)
(***************************************************************************)
EXTENDS Integers, Sequences, FiniteSets, TLC

\* ------------------------------------------------------------------ bounds

\* Most Answer rows the table holds before /submit requests stop being drawn.
MaxAnswers == 2
\* Most fields of a /submit form besides its name field.
MaxFields == 2

\* ------------------------------------------------------------- python values

\* Python's None (form.get of an absent key, a relationship with no row).
None == "<None>"

\* The names requests carry; the empty string is a name a form can carry.
Names == {"", "Al", "Bo"}
\* The values a parameter declared Form(...) reaches its handler with: the
\* field is required, and the framework answers a request whose field is
\* absent or empty itself (422), without entering the handler.
Required(values) == values \ {""}
\* The answer texts requests carry: a blank one, one with surrounding blanks.
Texts == {"", " t "}
\* The codes POST /results is tried with.
Codes == {"072823", "72823", " 072823"}
\* The processes (threads of the server's pool) that serve requests at once.
Workers == {"w1", "w2"}

PASSCODE == "072823"

new_questions ==
    << "What is your email address?",
       "What is your cell-phone number?",
       "What is your date of birth?",
       "What is your occupation?",
       "Who is your employer?",
       "How many years of investment experience do you have?",
       "What are your investment objectives? (e.g. Growth, Income, etc.)",
       "What is your Net Worth?",
       "Do you have any time limitation on your investment goals?",
       "Are you interested in life-insurance as well?" >>

\* --------------------------------------------------------------- form keys

NameKey == << "n", "a", "m", "e" >>
CodeKey == << "c", "o", "d", "e" >>
QuestionPrefix == << "q", "u", "e", "s", "t", "i", "o", "n", "_" >>
Underscore == "_"

DigitValue ==
    [ c \in {"0", "1", "2", "3", "4", "5", "6", "7", "8", "9"} |->
        CASE c = "0" -> 0 [] c = "1" -> 1 [] c = "2" -> 2 [] c = "3" -> 3
          [] c = "4" -> 4 [] c = "5" -> 5 [] c = "6" -> 6 [] c = "7" -> 7
          [] c = "8" -> 8 [] c = "9" -> 9 ]

\* str.startswith
StartsWith(s, p) == Len(s) >= Len(p) /\ SubSeq(s, 1, Len(p)) = p

\* str.split(sep): the segments between the occurrences of sep.
RECURSIVE Split(_, _)
Split(s, sep) ==
    IF \E i \in 1..Len(s) : s[i] = sep
      THEN LET i == CHOOSE k \in 1..Len(s) :
                        s[k] = sep /\ \A j \in 1..(k - 1) : s[j] # sep
           IN  << SubSeq(s, 1, i - 1) >> \o Split(SubSeq(s, i + 1, Len(s)), sep)
      ELSE << s >>

\* The digits of an int() literal: the text after an optional sign.
Unsigned(s) == IF s # << >> /\ s[1] \in {"+", "-"} THEN Tail(s) ELSE s

\* int(s) returns: s is an optional sign followed by one or more decimal digits.
\* Otherwise int raises ValueError.
IntParses(s) ==
    /\ Unsigned(s) # << >>
    /\ \A i \in 1..Len(Unsigned(s)) : Unsigned(s)[i] \in DOMAIN DigitValue

RECURSIVE DecimalValue(_)
DecimalValue(d) ==
    IF d = << >> THEN 0
    ELSE 10 * DecimalValue(SubSeq(d, 1, Len(d) - 1)) + DigitValue[d[Len(d)]]

\* int(s), where it returns.
IntOf(s) ==
    IF s # << >> /\ s[1] = "-" THEN 0 - DecimalValue(Unsigned(s))
    ELSE DecimalValue(Unsigned(s))

\* key.startswith("question_")
IsQuestionKey(key) == StartsWith(key, QuestionPrefix)

\* key.split("_")[1]
IdSuffix(key) == Split(key, Underscore)[2]

\* int(key.split("_")[1]) returns.
KeyParses(key) == IntParses(IdSuffix(key))

\* ------------------------------------------------------------------- forms

Field(k, v) == [key |-> k, value |-> v]

\* form.get(key): the value of the last field with that key, None without one.
FormGet(form, key) ==
    IF \E i \in 1..Len(form) : form[i].key = key
      THEN form[CHOOSE i \in 1..Len(form) :
                  form[i].key = key
                  /\ \A j \in (i + 1)..Len(form) : form[j].key # key].value
      ELSE None

\* form.items(): request.form() is a multi-dict, and its items() yields one
\* pair per distinct key, in the order the keys first occur, each with the
\* value of the last field of that key (multi_items() would yield every field).
RECURSIVE FormItems(_)
FormItems(form) ==
    IF form = << >> THEN << >>
    ELSE LET f == form[Len(form)]
             before == FormItems(SubSeq(form, 1, Len(form) - 1))
         IN  IF \E i \in 1..Len(before) : before[i].key = f.key
               THEN [ i \in 1..Len(before) |->
                        IF before[i].key = f.key THEN f ELSE before[i] ]
               ELSE Append(before, f)

\* The fields /submit forms are drawn from: question_1 (an existing question)
\* blank and filled in, question_12 (no such question), question_x (a suffix
\* int() rejects).
QuestionFields ==
    { Field(QuestionPrefix \o << "1" >>, t) : t \in Texts }
    \cup { Field(QuestionPrefix \o << "1", "2" >>, " t "),
           Field(QuestionPrefix \o << "x" >>, " t ") }
NameFields == { << >> } \cup { << Field(NameKey, n) >> : n \in Names }
Forms ==
    { nf \o qf : nf \in NameFields,
                 qf \in UNION { [1..n -> QuestionFields] : n \in 0..MaxFields } }

\* The number of fields of a form whose key starts with question_.
QuestionFieldCount(form) ==
    Cardinality({ i \in 1..Len(form) : IsQuestionKey(form[i].key) })

\* ---------------------------------------------------------------- database

RECURSIVE MaxId(_)
MaxId(table) ==
    IF table = << >> THEN 0
    ELSE LET m == MaxId(Tail(table))
         IN  IF Head(table).id > m THEN Head(table).id ELSE m

\* SQLite's INTEGER PRIMARY KEY without AUTOINCREMENT: one more than the
\* largest id in the table, 1 in an empty table.
NextId(table) == MaxId(table) + 1

\* The lookup without its filter_by: the first row of the table, whatever its name.
FindUserUnfiltered(us, name) == IF us # << >> THEN us[1].id ELSE 0

\* db.query(User).filter_by(name=name).first(): the id of the row, 0 for None.
FindUser(us, name) ==
    IF \E i \in 1..Len(us) : us[i].name = name
      THEN us[CHOOSE i \in 1..Len(us) :
                us[i].name = name /\ \A j \in 1..(i - 1) : us[j].name # name].id
      ELSE 0

\* The users table without its unique index: every INSERT is let through.
UniqueNameUnchecked(us, name) == TRUE

\* The unique index on users.name lets the INSERT through.
UniqueNameOk(us, name) == \A i \in 1..Len(us) : us[i].name # name

\* db.add(User(name=name)); db.commit(), where the INSERT is let through.
AddUser(us, name) == Append(us, [id |-> NextId(us), name |-> name])

\* The find-or-create of both handlers, run without interruption.
FindOrCreate(us, name) ==
    IF FindUser(us, name) # 0
      THEN [raised |-> FALSE, users |-> us, uid |-> FindUser(us, name),
            created |-> FALSE]
    ELSE IF UniqueNameOk(us, name)
      THEN [raised |-> FALSE, users |-> AddUser(us, name), uid |-> NextId(us),
            created |-> TRUE]
    ELSE [raised |-> TRUE, users |-> us, uid |-> 0, created |-> FALSE]

\* The check as `name == ""`: a form without a name field gets past it.
NameMissingEmptyOnly(name) == name = ""

\* `not name`
NameMissing(name) == name = None \/ name = ""

\* The index of the first item whose key int() rejects, 0 without one.
FirstMalformed(items) ==
    IF \E i \in 1..Len(items) :
           IsQuestionKey(items[i].key) /\ ~KeyParses(items[i].key)
      THEN CHOOSE i \in 1..Len(items) :
             /\ IsQuestionKey(items[i].key) /\ ~KeyParses(items[i].key)
             /\ \A j \in 1..(i - 1) :
                    ~(IsQuestionKey(items[j].key) /\ ~KeyParses(items[j].key))
      ELSE 0

\* The items the loop gets through: all, or those before the one that raises.
Processed(items) ==
    IF FirstMalformed(items) = 0 THEN items
    ELSE SubSeq(items, 1, FirstMalformed(items) - 1)

AnswerOf(item, uid) ==
    [answer_text |-> item.value, user_id |-> uid,
     question_id |-> IntOf(IdSuffix(item.key))]

\* The Answer objects db.add has put in the session when the loop ends.
PendingAnswers(items, uid) ==
    LET qs == SelectSeq(Processed(items), LAMBDA it : IsQuestionKey(it.key))
    IN  [ i \in 1..Len(qs) |-> AnswerOf(qs[i], uid) ]

\* db.commit() after the loop: the pending rows are inserted in order. No
\* question_id is checked against the questions table: the handler does not,
\* and the engine is created without SQLite's foreign-key enforcement.
CommitAnswers(ans, pending) ==
    ans \o [ i \in 1..Len(pending) |->
               [id |-> NextId(ans) + i - 1,
                answer_text |-> pending[i].answer_text,
                user_id |-> pending[i].user_id,
                question_id |-> pending[i].question_id] ]

\* A session that flushes what was added when it is closed.
CloseSessionFlushed(ans, pending) == CommitAnswers(ans, pending)

\* get_db's db.close() after the handler raised: what was added and not
\* committed is discarded.
CloseSession(ans, pending) == ans

\* The seed routine without its delete: the old rows stay.
DeleteNone(qs) == qs

\* db.query(Question).delete(); db.commit()
DeleteAll(qs) == << >>

\* preload_questions: the delete, then one row per prompt, in the list's order.
Reseeded(qs) ==
    DeleteAll(qs) \o
    [ i \in 1..Len(new_questions) |->
        [id |-> NextId(DeleteAll(qs)) + i - 1, text |-> new_questions[i]] ]

\* a.question.text, None where a.question is None.
QuestionOf(qs, qid) ==
    IF \E i \in 1..Len(qs) : qs[i].id = qid
      THEN qs[CHOOSE i \in 1..Len(qs) : qs[i].id = qid].text
      ELSE None

\* user.answers
UserAnswers(ans, uid) == SelectSeq(ans, LAMBDA a : a.user_id = uid)

\* a.question is None for some answer the comprehension visits: a.question.text
\* raises AttributeError.
ResultsRaises(us, qs, ans) ==
    \E i \in 1..Len(us) : \E j \in 1..Len(UserAnswers(ans, us[i].id)) :
        QuestionOf(qs, UserAnswers(ans, us[i].id)[j].question_id) = None

\* The list `data` view_results builds.
ResultsData(us, qs, ans) ==
    [ i \in 1..Len(us) |->
        [name |-> us[i].name,
         answers |->
            [ j \in 1..Len(UserAnswers(ans, us[i].id)) |->
                [question |->
                    QuestionOf(qs, UserAnswers(ans, us[i].id)[j].question_id),
                 answer |-> UserAnswers(ans, us[i].id)[j].answer_text] ]] ]

\* -------------------------------------------------------------------- state

VARIABLES
    phase,      \* "boot": the module is loading, before line 139; "serving"
    users,      \* the users table: rows [id, name] in id order
    questions,  \* the questions table: rows [id, text] in id order
    answers,    \* the answers table: rows [id, answer_text, user_id, question_id]
    last,       \* the request served last and the response it got
    inflight    \* per worker: the request it is in the middle of

vars == << phase, users, questions, answers, last, inflight >>

\* What a handler returned: the request (handler, form), the HTTP status, the
\* template (or the redirect's Location), whether it inserted a User row, the
\* context it gave the template (the seed routine: the rows it found), and the
\* tables it queried.
Response(handler, form, status, view, created, data, reads) ==
    [handler |-> handler, form |-> form, status |-> status, view |-> view,
     created |-> created, data |-> data, reads |-> reads]

NoRequest == Response("none", << >>, 0, "", FALSE, << >>, {})

\* An unhandled exception: the framework's 500 page.
ServerError(handler, form, created, reads) ==
    Response(handler, form, 500, "Internal Server Error", created, << >>, reads)

Idle == [pc |-> "idle", handler |-> "none", form |-> << >>, uid |-> 0,
         created |-> FALSE]

\* Question tables a questions.db left by an earlier run can hold: none, the
\* seeded ten, rows of an older list with other ids.
PriorQuestionTables ==
    { << >>,
      Reseeded(<< >>),
      << [id |-> 3, text |-> "What is your name?"],
         [id |-> 12, text |-> "What is your email address?"] >> }

Init ==
    /\ phase = "boot"
    /\ users = << >>
    /\ questions \in PriorQuestionTables
    /\ answers = << >>
    /\ last = NoRequest
    /\ inflight = [w \in Workers |-> Idle]

\* ------------------------------------------------- handlers, run one at a time

\* Lines 138-140: preload_questions, once, before any request is served.
preload_questions ==
    /\ phase = "boot"
    /\ phase' = "serving"
    /\ questions' = Reseeded(questions)
    /\ last' = Response("preload", << >>, 0, "", FALSE, questions, {"questions"})
    /\ UNCHANGED << users, answers, inflight >>

\* The process ends and is started again on the same questions.db.
Restart ==
    /\ phase = "serving"
    /\ phase' = "boot"
    /\ last' = NoRequest
    /\ inflight' = [w \in Workers |-> Idle]
    /\ UNCHANGED << users, questions, answers >>

\* GET /
read_root ==
    /\ phase = "serving"
    /\ last' = Response("root", << >>, 200, "index.html", FALSE, << >>, {})
    /\ UNCHANGED << phase, users, questions, answers, inflight >>

\* GET /results_login
results_login ==
    /\ phase = "serving"
    /\ last' = Response("results_login", << >>, 200, "results_login.html",
                        FALSE, << >>, {})
    /\ UNCHANGED << phase, users, questions, answers, inflight >>

\* What get_questions returns once the user is found or created.
QuestionsPage(form, created, qs) ==
    Response("questions", form, 200, "questions.html", created, qs,
             {"users", "questions"})

\* POST /questions
get_questions ==
    /\ phase = "serving"
    /\ \E name \in Required(Names) :
         LET form == << Field(NameKey, name) >>
             foc == FindOrCreate(users, name)
         IN  /\ users' = foc.users
             /\ last' = IF foc.raised
                          THEN ServerError("questions", form, FALSE, {"users"})
                          ELSE QuestionsPage(form, foc.created, questions)
    /\ UNCHANGED << phase, questions, answers, inflight >>

\* What submit_answers does to the answers table and returns, from the loop on.
SubmitRest(form, uid, created, ans) ==
    LET items == FormItems(form)
        pending == PendingAnswers(items, uid)
    IN  IF FirstMalformed(items) # 0
          THEN [answers |-> CloseSession(ans, pending),
                resp |-> ServerError("submit", form, created, {"users"})]
          ELSE [answers |-> CommitAnswers(ans, pending),
                resp |-> Response("submit", form, 200, "thankyou.html", created,
                                  << >>, {"users"})]

Redirect(form) == Response("submit", form, 302, "/", FALSE, << >>, {})

\* POST /submit
submit_answers ==
    /\ phase = "serving"
    /\ \E form \in Forms :
         LET name == FormGet(form, NameKey)
             foc == FindOrCreate(users, name)
             rest == SubmitRest(form, foc.uid, foc.created, answers)
         IN  /\ Len(answers) + QuestionFieldCount(form) <= MaxAnswers
             /\ IF NameMissing(name)
                  THEN /\ last' = Redirect(form)
                       /\ UNCHANGED << users, answers >>
                ELSE IF foc.raised
                  THEN /\ last' = ServerError("submit", form, FALSE, {"users"})
                       /\ UNCHANGED << users, answers >>
                ELSE /\ users' = foc.users
                     /\ answers' = rest.answers
                     /\ last' = rest.resp
    /\ UNCHANGED << phase, questions, inflight >>

\* The tables view_results has queried when it is through users, their answers
\* and each answer's question.
ResultsReads(us, ans) ==
    {"users"} \cup (IF us = << >> THEN {} ELSE {"answers"})
              \cup (IF \E i \in 1..Len(us) : UserAnswers(ans, us[i].id) # << >>
                      THEN {"questions"} ELSE {})

\* What view_results returns.
ResultsView(code, us, qs, ans) ==
    LET form == << Field(CodeKey, code) >>
    IN  IF code # PASSCODE
          THEN Response("results", form, 200, "results_login.html", FALSE,
                        << "Invalid code." >>, {})
        ELSE IF ResultsRaises(us, qs, ans)
          THEN ServerError("results", form, FALSE, ResultsReads(us, ans))
        ELSE Response("results", form, 200, "results.html", FALSE,
                      ResultsData(us, qs, ans), ResultsReads(us, ans))

\* POST /results
view_results ==
    /\ phase = "serving"
    /\ \E code \in Required(Codes) : last' = ResultsView(code, users, questions, answers)
    /\ UNCHANGED << phase, users, questions, answers, inflight >>

\* ------------------------------------- handlers, interleaved at their queries

\* The forms of the /submit requests served at once: with or without a name,
\* with or without an answer to question 1.
ConcForms ==
    { nf \o qf : nf \in NameFields,
                 qf \in { << >>, << Field(QuestionPrefix \o << "1" >>, " t ") >> } }

\* The question_ fields of the forms the workers are in the middle of.
RECURSIVE InflightFields(_)
InflightFields(ws) ==
    IF ws = {} THEN 0
    ELSE LET w == CHOOSE x \in ws : TRUE
         IN  QuestionFieldCount(inflight[w].form) + InflightFields(ws \ {w})

\* A worker takes a POST /questions: the handler is entered, no query made yet.
BeginQuestions(w) ==
    /\ phase = "serving"
    /\ inflight[w].pc = "idle"
    /\ \E name \in Required(Names) :
         inflight' = [inflight EXCEPT ![w] =
                        [pc |-> "lookup", handler |-> "questions",
                         form |-> << Field(NameKey, name) >>, uid |-> 0,
                         created |-> FALSE]]
    /\ UNCHANGED << phase, users, questions, answers, last >>

\* A worker takes a POST /submit: lines 98-101, before any query.
BeginSubmit(w) ==
    /\ phase = "serving"
    /\ inflight[w].pc = "idle"
    /\ \E form \in ConcForms :
         /\ Len(answers) + InflightFields(Workers) + QuestionFieldCount(form)
               <= MaxAnswers
         /\ IF NameMissing(FormGet(form, NameKey))
              THEN /\ last' = Redirect(form)
                   /\ UNCHANGED inflight
              ELSE /\ inflight' = [inflight EXCEPT ![w] =
                                     [pc |-> "lookup", handler |-> "submit",
                                      form |-> form, uid |-> 0,
                                      created |-> FALSE]]
                   /\ UNCHANGED last
    /\ UNCHANGED << phase, users, questions, answers >>

\* Lines 86-87 and 103-104: the SELECT by name.
Lookup(w) ==
    /\ inflight[w].pc = "lookup"
    /\ LET uid == FindUser(users, FormGet(inflight[w].form, NameKey))
       IN  inflight' = [inflight EXCEPT ![w].uid = uid,
                                        ![w].pc = IF uid = 0 THEN "insert"
                                                  ELSE "rest"]
    /\ UNCHANGED << phase, users, questions, answers, last >>

\* Lines 88-91 and 105-108: the INSERT and its commit. The unique index on
\* users.name refuses a second row of the name with IntegrityError.
Insert(w) ==
    /\ inflight[w].pc = "insert"
    /\ LET name == FormGet(inflight[w].form, NameKey)
       IN  IF UniqueNameOk(users, name)
             THEN /\ users' = AddUser(users, name)
                  /\ inflight' = [inflight EXCEPT ![w].uid = NextId(users),
                                                   ![w].created = TRUE,
                                                   ![w].pc = "rest"]
                  /\ UNCHANGED last
             ELSE /\ last' = ServerError(inflight[w].handler, inflight[w].form,
                                         FALSE, {"users"})
                  /\ inflight' = [inflight EXCEPT ![w] = Idle]
                  /\ UNCHANGED users
    /\ UNCHANGED << phase, questions, answers >>

\* Lines 93-94 and 110-116: the rest of the handler, to its response.
Finish(w) ==
    /\ inflight[w].pc = "rest"
    /\ LET r == inflight[w]
           rest == SubmitRest(r.form, r.uid, r.created, answers)
       IN  IF r.handler = "questions"
             THEN /\ last' = QuestionsPage(r.form, r.created, questions)
                  /\ UNCHANGED answers
             ELSE /\ last' = rest.resp
                  /\ answers' = rest.answers
    /\ inflight' = [inflight EXCEPT ![w] = Idle]
    /\ UNCHANGED << phase, users, questions >>

NextConc ==
    \/ preload_questions
    \/ \E w \in Workers : BeginQuestions(w)
    \/ \E w \in Workers : BeginSubmit(w)
    \/ \E w \in Workers : Lookup(w)
    \/ \E w \in Workers : Insert(w)
    \/ \E w \in Workers : Finish(w)

SpecConc == Init /\ [][NextConc]_vars

Next ==
    \/ preload_questions
    \/ Restart
    \/ read_root
    \/ results_login
    \/ get_questions
    \/ submit_answers
    \/ view_results

Spec == Init /\ [][Next]_vars

\* ------------------------------------------------------------------ claims

\* The name a served request carried: the name field of a POST /questions or
\* POST /submit, None for any other request and for a form without the field.
CarriedName(r) ==
    IF r.handler \in {"questions", "submit"} THEN FormGet(r.form, NameKey)
    ELSE None

UsersNamed(us, n) == { i \in 1..Len(us) : us[i].name = n }

ValidFields(form) ==
    SelectSeq(form, LAMBDA f : IsQuestionKey(f.key) /\ KeyParses(f.key))

\* C2, as stated: a POST /submit that succeeds with a non-missing name and k
\* fields with valid question_<id> keys adds exactly k Answer rows, the i-th
\* with the user's id, the parsed id and the value of the i-th such field.
C2_OneRowPerField ==
    [][ (last'.handler = "submit" /\ last'.status = 200)
          => LET valid == ValidFields(last'.form)
                 uid == FindUser(users', FormGet(last'.form, NameKey))
             IN  /\ Len(answers') = Len(answers) + Len(valid)
                 /\ SubSeq(answers', 1, Len(answers)) = answers
                 /\ \A i \in 1..Len(valid) :
                      LET a == answers'[Len(answers) + i]
                      IN  /\ a.user_id = uid
                          /\ a.question_id = IntOf(IdSuffix(valid[i].key))
                          /\ a.answer_text = valid[i].value ]_vars

\* C3: a POST /submit whose form has no name field is answered 302 to / and
\* leaves the three tables as they were, whatever question_ fields it carries.
C3_NoNameNoMutation ==
    [][ (last'.handler = "submit" /\ FormGet(last'.form, NameKey) = None)
          => /\ last'.status = 302
             /\ last'.view = "/"
             /\ users' = users
             /\ questions' = questions
             /\ answers' = answers ]_vars

\* A form with question_ fields and no name field was redirected, with users
\* in the table.
C3_Witness ==
    /\ last.handler = "submit"
    /\ FormGet(last.form, NameKey) = None
    /\ QuestionFieldCount(last.form) = MaxFields
    /\ last.status = 302
    /\ users # << >>

\* C4, as stated: POST /results with the passcode is answered with the results
\* view listing every User with all of that user's answers, in every state;
\* with any other code, with the login form and an error, no table read.
C4_PasscodeGate ==
    last.handler = "results"
      => IF FormGet(last.form, CodeKey) = PASSCODE
           THEN /\ last.status = 200
                /\ last.view = "results.html"
                /\ Len(last.data) = Len(users)
                /\ \A i \in 1..Len(users) :
                     /\ last.data[i].name = users[i].name
                     /\ [ j \in 1..Len(last.data[i].answers) |->
                            last.data[i].answers[j].answer ]
                          = [ j \in 1..Len(UserAnswers(answers, users[i].id)) |->
                                UserAnswers(answers, users[i].id)[j].answer_text ]
           ELSE /\ last.view = "results_login.html"
                /\ last.data = << "Invalid code." >>
                /\ last.reads = {}

QuestionTexts(qs) == [ i \in 1..Len(qs) |-> qs[i].text ]

\* C5: once the seed routine has run, from whatever rows, the Question table
\* holds the ten prompts in the list's order and nothing else; a second run
\* leaves the same texts in the same order.
C5_SeedIsFixedList ==
    phase = "serving"
      => /\ Len(questions) = 10
         /\ QuestionTexts(questions) = new_questions

\* The seed routine ran again, on the ten rows its earlier run left, after
\* requests were served.
C5_Witness ==
    /\ last.handler = "preload"
    /\ QuestionTexts(last.data) = new_questions
    /\ users # << >>
    /\ answers # << >>

\* The entries (question text, answer text) of the rows of user uid, in order.
EntriesOf(us, qs, ans, uid) ==
    [ j \in 1..Len(UserAnswers(ans, uid)) |->
        [question |-> QuestionOf(qs, UserAnswers(ans, uid)[j].question_id),
         answer |-> UserAnswers(ans, uid)[j].answer_text] ]

\* C6, as stated: after a POST /submit that succeeds with name n and a field
\* question_<q.id>=t for an existing question q (t the value the form gives the
\* key), POST /results with the passcode lists under n the pair (q's text, t)
\* unchanged, together with every earlier answer of n.
C6_RoundTrip ==
    (last.handler = "submit" /\ last.status = 200)
      => LET n == FormGet(last.form, NameKey)
             view == ResultsView(PASSCODE, users, questions, answers)
         IN  \A k \in 1..Len(last.form) :
               LET f == last.form[k]
               IN  ( /\ IsQuestionKey(f.key) /\ KeyParses(f.key)
                     /\ FormGet(last.form, f.key) = f.value
                     /\ QuestionOf(questions, IntOf(IdSuffix(f.key))) # None )
                     => /\ view.view = "results.html"
                        /\ \E i \in 1..Len(view.data) :
                             /\ view.data[i].name = n
                             /\ \E j \in 1..Len(view.data[i].answers) :
                                  view.data[i].answers[j] =
                                    [question |->
                                        QuestionOf(questions,
                                                   IntOf(IdSuffix(f.key))),
                                     answer |-> f.value]
                             /\ Len(view.data[i].answers) =
                                  Len(UserAnswers(answers,
                                                  FindUser(users, n)))

\* C7, as stated: every Answer row's user_id is the id of a User row, and its
\* question_id was the id of a Question row when /submit wrote it.
C7_AnswerReferences ==
    [][ \A i \in 1..Len(answers') :
          /\ \E u \in 1..Len(users') : users'[u].id = answers'[i].user_id
          /\ i > Len(answers)
               => \E q \in 1..Len(questions) :
                      questions[q].id = answers'[i].question_id ]_vars

\* Some stored Answer has a question_id that is the id of no Question row.
HasOrphan ==
    \E i \in 1..Len(answers) : QuestionOf(questions, answers[i].question_id) = None

\* C8, as stated: with an orphaned Answer stored, POST /results with the
\* passcode still renders the results view, every answer listed, the orphaned
\* one with a missing question text, and no error response.
C8_OrphanRendersBlank ==
    ( /\ last.handler = "results"
      /\ FormGet(last.form, CodeKey) = PASSCODE
      /\ HasOrphan )
      => /\ last.status = 200
         /\ last.view = "results.html"
         /\ \A i \in 1..Len(users) :
              last.data[i].answers = EntriesOf(users, questions, answers,
                                               users[i].id)

\* C9: whatever the interleaving of POST /questions and POST /submit for one
\* name, no two User rows share a name.
C9_NameUnique ==
    \A i, j \in 1..Len(users) : users[i].name = users[j].name => i = j

\* Two requests for "Al" both found no row; one inserted it, the other's
\* INSERT was refused and it ended in a server error.
C9_Witness ==
    /\ last.handler = "questions"
    /\ last.status = 500
    /\ CarriedName(last) = "Al"
    /\ Cardinality(UsersNamed(users, "Al")) = 1
    /\ \E w \in Workers :
         /\ inflight[w].handler = "submit"
         /\ inflight[w].created
         /\ FormGet(inflight[w].form, NameKey) = "Al"

\* Some question_ key of the form has a suffix int() rejects.
HasMalformedKey(form) ==
    \E k \in 1..Len(form) : IsQuestionKey(form[k].key) /\ ~KeyParses(form[k].key)

\* C10: a POST /submit with a non-missing name and a malformed question_ key
\* ends in a server error and adds no Answer row, not even for the well-formed
\* fields before the malformed one; the User row it created for a name not
\* seen before stays.
C10_MalformedKey ==
    [][ ( /\ last'.handler = "submit"
          /\ ~NameMissing(FormGet(last'.form, NameKey))
          /\ HasMalformedKey(last'.form) )
          => LET n == FormGet(last'.form, NameKey)
             IN  /\ last'.status = 500
                 /\ answers' = answers
                 /\ UsersNamed(users, n) = {}
                      => /\ last'.created
                         /\ users' = Append(users, [id |-> Len(users) + 1,
                                                    name |-> n])
                 /\ UsersNamed(users, n) # {} => users' = users ]_vars

\* A form for a name not seen before, a well-formed field first and a
\* malformed one after it, ended in a server error: the user is there, no
\* answer is.
C10_Witness ==
    /\ last.handler = "submit"
    /\ last.status = 500
    /\ last.created
    /\ Len(last.form) = 3
    /\ KeyParses(last.form[2].key)
    /\ ~KeyParses(last.form[3].key)
    /\ Cardinality(UsersNamed(users, FormGet(last.form, NameKey))) = 1
    /\ answers = << >>

====
